---- MODULE Spec2Model ----
(***************************************************************************)
(* Focus Writer Pro: the session lifecycle of the Electron application.    *)
(* The renderer (class FocusWriterApp) owns the session state, the two     *)
(* interval timers and the editor; the main process owns the lockdown      *)
(* state, the draft file, the archive and the session history.  The two    *)
(* talk through ipcRenderer.invoke, whose requests are handled in order    *)
(* and whose replies resume the awaiting renderer function.                *)
(***************************************************************************)
EXTENDS Integers, Sequences, FiniteSets, TLC

\* ------------------------------------------------------------------ bounds
\* largest number of words of a text the user puts into the editor
MaxWords == 14
\* ipcRenderer.invoke calls that may be in flight at once
MaxPending == 2
\* interval timers of one kind that may be live at once
MaxTimers == 2
\* keepWriting invocations in one run
MaxKeep == 1
\* sessions started in one run
MaxSessions == 3
MaxStarts == 2

\* ------------------------------------------------------- program constants
MIN_WORDS == 10
MAX_WORDS == 50000
MIN_MINUTES == 1
MAX_MINUTES == 480
DefaultGoalValue == 500
KeepWritingMinutes == 10
DriftThreshold == 5

\* startTime: null (Date.now() - null is Date.now(): null converts to 0)
Null == 0 - 1
ToNumber(x) == IF x = Null THEN 0 ELSE x

\* ------------------------------------------------------------------- text
\* A text is a sequence of one-character strings.
WS == {" ", "\t", "\n"}

RECURSIVE TrimStart(_)
TrimStart(s) ==
    IF s = <<>> THEN s
    ELSE IF Head(s) \in WS THEN TrimStart(Tail(s)) ELSE s

RECURSIVE TrimEnd(_)
TrimEnd(s) ==
    IF s = <<>> THEN s
    ELSE IF s[Len(s)] \in WS THEN TrimEnd(SubSeq(s, 1, Len(s) - 1)) ELSE s

\* String.prototype.trim
Trim(s) == TrimEnd(TrimStart(s))

\* text.split(/\s+/): the pieces between maximal whitespace runs
RECURSIVE SplitWs(_, _, _)
SplitWs(s, cur, inWs) ==
    IF s = <<>> THEN <<cur>>
    ELSE IF Head(s) \in WS
         THEN IF inWs THEN SplitWs(Tail(s), cur, TRUE)
              ELSE <<cur>> \o SplitWs(Tail(s), <<>>, TRUE)
         ELSE SplitWs(Tail(s), Append(cur, Head(s)), FALSE)

\* the number of pieces of positive length (filter(word => word.length > 0))
RECURSIVE CountNonEmpty(_)
CountNonEmpty(pieces) ==
    IF pieces = <<>> THEN 0
    ELSE (IF Len(Head(pieces)) > 0 THEN 1 ELSE 0) + CountNonEmpty(Tail(pieces))

\* a mutant: every piece counts, the empty ones too, and the text is not trimmed
countWords_NoTrim(text) ==
    IF text = <<>> THEN 0 ELSE Len(SplitWs(text, <<>>, FALSE))

countWords(text) ==
    IF text = <<>> \/ Trim(text) = <<>> THEN 0
    ELSE CountNonEmpty(SplitWs(Trim(text), <<>>, FALSE))

\* the text of n one-letter words separated by single spaces
RECURSIVE Doc(_)
Doc(n) == IF n = 0 THEN <<>> ELSE IF n = 1 THEN <<"w">> ELSE Doc(n - 1) \o <<" ", "w">>

Blank == <<" ", "\n">>
\* the same words with whitespace around and tabs and newlines between them
Padded(n) == <<" ">> \o Doc(n) \o <<"\t", "\n">>

\* what the user may leave in the editor after an edit
EditCounts == {0, 9, 10, MaxWords}
EditorTexts == {Doc(n) : n \in {c \in EditCounts : c <= MaxWords}} \cup {Padded(12)}

\* texts with whitespace at the ends, repeated between words, and alone
WordTexts ==
    { <<>>, <<" ">>, Blank, Doc(3), Padded(2),
      <<"\n", "a">>, <<"a", " ">>,
      <<"a", "b", " ", " ", "\t", "c", "\n", "\n", "d", "e">> }

\* -------------------------------------------------------------- parseInt
Digits == {"0", "1", "2", "3", "4", "5", "6", "7", "8", "9"}
DigitVal(c) ==
    CASE c = "0" -> 0 [] c = "1" -> 1 [] c = "2" -> 2 [] c = "3" -> 3 [] c = "4" -> 4
      [] c = "5" -> 5 [] c = "6" -> 6 [] c = "7" -> 7 [] c = "8" -> 8 [] c = "9" -> 9

\* the value of the longest prefix of digits, acc digits already read
RECURSIVE DigitPrefix(_, _, _)
DigitPrefix(s, acc, seen) ==
    IF s # <<>> /\ Head(s) \in Digits
    THEN DigitPrefix(Tail(s), acc * 10 + DigitVal(Head(s)), TRUE)
    ELSE [nan |-> ~seen, val |-> acc]

\* parseInt(string): leading whitespace skipped, an optional sign, then the
\* leading digits; NaN when there is none.  Whatever follows is ignored.
parseInt(str) ==
    LET s == TrimStart(str)
        neg == s # <<>> /\ Head(s) = "-"
        body == IF s # <<>> /\ Head(s) \in {"-", "+"} THEN Tail(s) ELSE s
        r == DigitPrefix(body, 0, FALSE)
    IN  [nan |-> r.nan, val |-> IF neg THEN 0 - r.val ELSE r.val]

\* what the goal input fields may hold when Start is clicked
WordInputs ==
    { <<>>, <<"a", "b", "c">>, <<"9">>, <<"1", "0">>, <<"1", "1", ".", "5">>,
      <<"5", "0", "0", "0", "1">> }
TimeInputs ==
    { <<>>, <<"0">>, <<"1">>, <<"1", "e", "3">>, <<"4", "8", "1">> }

\* the input denotes an integer: digits only (an optional sign before them)
IsIntegerText(str) ==
    LET s == IF str # <<>> /\ Head(str) \in {"-", "+"} THEN Tail(str) ELSE str
    IN  s # <<>> /\ \A i \in 1..Len(s) : s[i] \in Digits

\* ---------------------------------------------------------------- clock
\* the instants (Date.now(), milliseconds) at which anything happens.  Epoch
\* stands for the time since 1970 at which the application is started: it is
\* scaled down to fit the integers checked here and still exceeds every goal.
Epoch == 100000000
Instants == {Epoch + d : d \in {0, 3000, 59999, 63000, 663000}}

\* what the emergency field may hold after a keystroke
GiveUpUpper == <<"I", " ", "G", "I", "V", "E", " ", "U", "P">>
PhraseInputs ==
    { GiveUpUpper,
      <<" ", "i", " ", "g", "i", "v", "e", " ", "u", "p", " ">>,
      <<"I", " ", "g", "i", "v", "e">>,
      <<"i", " ", "G", "i", "V", "e", " ", "U", "p", "\n">>,
      <<"I", " ", " ", "G", "I", "V", "E", " ", "U", "P">> }

UpperChar(c) ==
    CASE c = "i" -> "I" [] c = "g" -> "G" [] c = "v" -> "V" [] c = "e" -> "E"
      [] c = "u" -> "U" [] c = "p" -> "P" [] c = "m" -> "M" [] c = "r" -> "R"
      [] c = "n" -> "N" [] c = "c" -> "C" [] c = "y" -> "Y" [] c = "x" -> "X"
      [] c = "t" -> "T" [] OTHER -> c
\* String.prototype.toUpperCase
toUpperCase(s) == [i \in 1..Len(s) |-> UpperChar(s[i])]

\* ------------------------------------------------------------------ state
VARIABLES
    session,        \* this.session of the renderer
    editor,         \* this.editor.value
    currentDraft,   \* this.currentDraft
    screen,         \* the screen shown: "welcome" or "writing"
    emergencyModal, \* the emergency modal is visible
    exitBtn,        \* the goal banner was shown and the persistent exit button exists
    tickTimers,     \* the live intervals that call tick()
    saveTimers,     \* the live intervals that call autoSave()
    now,            \* Date.now()
    pending,        \* the ipcRenderer.invoke calls in flight, oldest first
    main,           \* the main process: window, lockdown, sessionConfig
    exitWarning,    \* a 'show-exit-warning' message is on its way to the renderer
    draftFile,      \* current.txt
    archives,       \* the file names of drafts/
    sessions,       \* sessions.json
    goalFires,      \* goalReached() calls since startSession, keepWriting or resetSession
    driftLog,       \* the last tick logged a time jump
    nKeep,          \* keepWriting invocations so far
    nStarts,        \* sessions started so far
    audit,          \* the archive and the history file are observed
    saveError,      \* the save indicator shows 'Save failed' (class 'error')
    goalBtn,        \* the goal-type button shown as selected (class 'active')
    web             \* the web version (class FocusWriter of app.js): its page and its localStorage

vars ==
    << session, editor, currentDraft, screen, emergencyModal, exitBtn, tickTimers,
       saveTimers, now, pending, main, exitWarning, draftFile, archives, sessions, goalFires, driftLog,
       nKeep, nStarts, audit, saveError, goalBtn, web >>

mainFiles == <<draftFile, archives, sessions>>
counters == <<nKeep, nStarts, audit, goalBtn, web>>

\* the session object of the constructor and of resetSession
DefaultSession ==
    [ active |-> FALSE, goalType |-> "words", goalValue |-> DefaultGoalValue,
      strictMode |-> TRUE, startTime |-> Null, startWordCount |-> 0,
      currentWordCount |-> 0, timerInterval |-> 0, autoSaveInterval |-> 0,
      elapsedSeconds |-> 0, goalTriggered |-> FALSE, goalCompleted |-> FALSE ]

\* current.txt does not exist
NoFile == <<"<no file>">>

NoStats == [words |-> 0, duration |-> 0, goalType |-> "none", goalValue |-> 0, completed |-> FALSE]

\* one ipcRenderer.invoke in flight: the channel, its arguments, the function
\* that awaits it, and (once the main process handled it) the reply, or that
\* the handler threw and the invoke is rejected; calls is what the handler of
\* an exit request called, in the order of the calls
Req(op, cont, content, strict, stats) ==
    [ op |-> op, cont |-> cont, content |-> content, strict |-> strict,
      stats |-> stats, handled |-> FALSE, ok |-> TRUE, reply |-> <<>>,
      thrown |-> FALSE, calls |-> <<>> ]

\* the methods the preload script exposes as window.focusWriter
PreloadAPI ==
    { "startSession", "endSession", "emergencyExit", "saveContent", "loadDraft",
      "clearDraft", "loadSessions", "saveSettings", "loadSettings",
      "getDocumentsPath", "onShowExitWarning" }

\* setInterval: a handle no live interval has and the session does not hold
FreeIds(live, held) == {i \in 1..MaxTimers : i \notin live /\ i # held}
NewId(live, held) == CHOOSE i \in FreeIds(live, held) : \A j \in FreeIds(live, held) : i <= j

\* the main process after construction, before any session
InitMain ==
    [ mainWindow |-> TRUE, isSessionActive |-> FALSE, hasConfig |-> FALSE,
      configStrict |-> FALSE, kiosk |-> FALSE, fullScreen |-> FALSE,
      closable |-> TRUE, shortcuts |-> FALSE, lockdownInterval |-> FALSE,
      liveIntervals |-> 0 ]

\* the drafts current.txt may hold when the application starts
InitDrafts == {NoFile, Doc(2)}

\* loadDraft: the draft shown and kept as currentDraft
DraftShown(ok, content) ==
    IF ok /\ content # <<>> /\ Trim(content) # <<>> THEN content ELSE <<>>

InitState ==
    /\ session = DefaultSession
    /\ editor = <<>>
    /\ draftFile \in InitDrafts
    /\ currentDraft = DraftShown(TRUE, IF draftFile = NoFile THEN <<>> ELSE draftFile)
    /\ screen = "welcome"
    /\ emergencyModal = FALSE
    /\ exitBtn = FALSE
    /\ tickTimers = {}
    /\ saveTimers = {}
    /\ now = Epoch
    /\ pending = <<>>
    /\ main = InitMain
    /\ exitWarning = FALSE
    /\ archives = {}
    /\ sessions = <<>>
    /\ goalFires = 0
    /\ driftLog = FALSE
    /\ nKeep = 0
    /\ nStarts = 0
    /\ saveError = FALSE
    /\ goalBtn = "words"

\* the page of the web version is not open
WebClosed ==
    [ sessionActive |-> FALSE, sessionDuration |-> 0, timeRemaining |-> 0,
      isStrictMode |-> TRUE, timerInterval |-> 0, timers |-> {},
      store |-> [kind |-> "none", duration |-> 0, remaining |-> 0,
                 strict |-> FALSE, timestamp |-> 0],
      settingsPanel |-> FALSE, emergencyExit |-> FALSE, now |-> 0,
      loaded |-> FALSE ]

Init ==
    /\ InitState
    /\ audit = FALSE
    /\ web = WebClosed

\* the same start, with drafts/ and sessions.json observed
InitAudit ==
    /\ InitState
    /\ audit = TRUE
    /\ web = WebClosed

\* ------------------------------------------------ renderer: pure parts
\* startSession's validation: "none" when the goal is accepted
GoalRejection(goalType, p) ==
    LET lo == IF goalType = "words" THEN MIN_WORDS ELSE MIN_MINUTES
        hi == IF goalType = "words" THEN MAX_WORDS ELSE MAX_MINUTES
    IN  IF p.nan \/ p.val < lo THEN "min"
        ELSE IF p.val > hi THEN "max"
        ELSE "none"

\* elapsed time counted tick by tick, as in elapsedSeconds++
actualElapsed_Counted(s, t) == s.elapsedSeconds + 1

\* Math.floor((Date.now() - startTime) / 1000)
actualElapsed(s, t) == (t - ToNumber(s.startTime)) \div 1000

\* the time goal checked whatever the goal type
TimeGoalDue_AnyType(s) ==
    ~s.goalTriggered /\ s.elapsedSeconds >= s.goalValue * 60

\* tick's goal check
TimeGoalDue(s) ==
    s.goalType = "time" /\ ~s.goalTriggered /\ s.elapsedSeconds >= s.goalValue * 60

\* handleEditorInput's goal check
WordGoalDue(s) ==
    s.goalType = "words" /\ ~s.goalTriggered
      /\ s.currentWordCount - s.startWordCount >= s.goalValue

\* the word goal rounded down instead of up
KeepWritingGoal_Floor(s) ==
    IF s.goalType = "time" THEN s.goalValue + KeepWritingMinutes
    ELSE (s.goalValue * 6) \div 5

\* keepWriting's new goal; Math.ceil(g * 1.2) is the exact ceiling of 6g/5 for
\* every g the double product is computed for here (checked up to 10^6)
KeepWritingGoal(s) ==
    IF s.goalType = "time" THEN s.goalValue + KeepWritingMinutes
    ELSE (s.goalValue * 6 + 4) \div 5

\* Math.min(100, (n / d) * 100), as the fraction num / den of integers
Percent(n, d) ==
    IF n * 100 >= 100 * d THEN [num |-> 100, den |-> 1]
    ELSE [num |-> n * 100, den |-> d]

\* the word progress without Math.max(0, ...)
updateProgress_Signed(s) ==
    IF s.goalType = "words"
    THEN Percent(s.currentWordCount - s.startWordCount, s.goalValue)
    ELSE Percent(s.elapsedSeconds, s.goalValue * 60)

\* updateProgress: the width of the progress bar, in percent
updateProgress(s) ==
    IF s.goalType = "words"
    THEN Percent(IF s.currentWordCount - s.startWordCount > 0
                 THEN s.currentWordCount - s.startWordCount ELSE 0,
                 s.goalValue)
    ELSE Percent(s.elapsedSeconds, s.goalValue * 60)

\* autoSave runs unless (!active && !goalCompleted)
AutoSaveRuns(s) == s.active \/ s.goalCompleted

\* clearInterval(handle): null (0) and dead handles clear nothing
Cleared(live, handle) == live \ {handle}

\* goalReached() up to its first await, called with goalTriggered just set:
\* the session is freed, the autosave interval stopped and the final save sent
goalReached(s, content) ==
    /\ Len(pending) < MaxPending
    /\ session' = [s EXCEPT !.active = FALSE, !.goalCompleted = TRUE]
    /\ saveTimers' = Cleared(saveTimers, s.autoSaveInterval)
    /\ pending' = Append(pending, Req("save-content", "goalReached", content, FALSE, NoStats))
    /\ goalFires' = IF goalFires < 2 THEN goalFires + 1 ELSE goalFires

\* a reset that leaves the goal latch and the counts of the ended session
resetSession_KeepsCounts ==
    /\ tickTimers' = Cleared(tickTimers, session.timerInterval)
    /\ saveTimers' = Cleared(saveTimers, session.autoSaveInterval)
    /\ session' = [session EXCEPT !.active = FALSE, !.goalCompleted = FALSE,
                                  !.timerInterval = 0, !.autoSaveInterval = 0]
    /\ exitBtn' = FALSE
    /\ goalFires' = 0

\* resetSession: both handles cleared, the session object replaced
resetSession ==
    /\ tickTimers' = Cleared(tickTimers, session.timerInterval)
    /\ saveTimers' = Cleared(saveTimers, session.autoSaveInterval)
    /\ session' = DefaultSession
    /\ exitBtn' = FALSE
    /\ goalFires' = 0

\* ------------------------------------------------------ renderer: events
setGoalType(type) ==
    /\ main.mainWindow
    /\ screen = "welcome"
    /\ session' = [session EXCEPT !.goalType = type]
    /\ goalBtn' = type
    /\ UNCHANGED << exitBtn, editor, currentDraft, screen, emergencyModal, tickTimers, saveTimers, now,
                    pending, main, exitWarning, mainFiles, goalFires, driftLog, nKeep, nStarts,
                    audit, web, saveError >>

\* the Start button: startSession() up to its await
startSession(raw, strict) ==
    /\ main.mainWindow
    /\ screen = "welcome"
    /\ LET p == parseInt(raw)
           why == GoalRejection(session.goalType, p)
       IN  IF why # "none"
           THEN UNCHANGED << session, editor, pending, goalFires, nStarts >>
           ELSE /\ Len(pending) < MaxPending
                /\ editor' = currentDraft
                /\ session' = [session EXCEPT
                       !.goalValue = p.val,
                       !.strictMode = strict,
                       !.startWordCount = countWords(currentDraft),
                       !.currentWordCount = countWords(currentDraft),
                       !.startTime = now,
                       !.elapsedSeconds = 0,
                       !.active = TRUE]
                /\ pending' = Append(pending,
                       Req("start-session", "startSession", <<>>, strict, NoStats))
                /\ goalFires' = 0
                /\ nStarts' = nStarts + 1
    /\ UNCHANGED << exitBtn, currentDraft, screen, emergencyModal, tickTimers, saveTimers,
                    now, main, exitWarning, mainFiles, driftLog, nKeep, audit, goalBtn, web, saveError >>

\* a live tick interval fires
tick(id) ==
    /\ main.mainWindow
    /\ id \in tickTimers
    /\ LET elapsed == actualElapsed(session, now)
           s1 == [session EXCEPT !.elapsedSeconds = elapsed]
       IN  /\ driftLog' = (elapsed - session.elapsedSeconds > DriftThreshold)
           /\ IF TimeGoalDue(s1)
              THEN goalReached([s1 EXCEPT !.goalTriggered = TRUE], editor)
              ELSE /\ session' = s1
                   /\ UNCHANGED << saveTimers, pending, goalFires >>
    /\ UNCHANGED << exitBtn, editor, currentDraft, screen, emergencyModal, tickTimers, now,
                    main, exitWarning, mainFiles, counters, saveError >>

\* an input event of the editor, leaving text in it
handleEditorInput(text) ==
    /\ main.mainWindow
    /\ screen = "writing"
    /\ editor' = text
    /\ LET s1 == [session EXCEPT !.currentWordCount = countWords(text)]
       IN  IF WordGoalDue(s1)
           THEN goalReached([s1 EXCEPT !.goalTriggered = TRUE], text)
           ELSE /\ session' = s1
                /\ UNCHANGED << saveTimers, pending, goalFires >>
    /\ UNCHANGED << exitBtn, currentDraft, screen, emergencyModal,
                    tickTimers, now, main, exitWarning, mainFiles, driftLog, counters, saveError >>

\* a live autosave interval fires: autoSave() up to its await
autoSave(id) ==
    /\ main.mainWindow
    /\ id \in saveTimers
    /\ IF AutoSaveRuns(session)
       THEN /\ Len(pending) < MaxPending
            /\ pending' = Append(pending, Req("save-content", "autoSave", editor, FALSE, NoStats))
       ELSE pending' = pending
    /\ UNCHANGED << exitBtn, session, editor, currentDraft, screen, emergencyModal,
                    tickTimers, saveTimers, now, main, exitWarning, mainFiles, goalFires,
                    driftLog, counters, saveError >>

\* Keep Writing restarting the session clock
keepWriting_Restarts ==
    /\ main.mainWindow
    /\ session.goalCompleted /\ exitBtn
    /\ nKeep < MaxKeep
    /\ LET ticks == Cleared(tickTimers, session.timerInterval)
           saves == Cleared(saveTimers, session.autoSaveInterval)
       IN  /\ FreeIds(ticks, 0) # {} /\ FreeIds(saves, 0) # {}
           /\ tickTimers' = ticks \cup {NewId(ticks, 0)}
           /\ saveTimers' = saves \cup {NewId(saves, 0)}
           /\ session' = [session EXCEPT
                  !.goalValue = KeepWritingGoal(session),
                  !.startTime = now,
                  !.goalTriggered = FALSE,
                  !.goalCompleted = FALSE,
                  !.active = TRUE,
                  !.timerInterval = NewId(ticks, 0),
                  !.autoSaveInterval = NewId(saves, 0)]
    /\ screen' = "writing"
    /\ exitBtn' = FALSE
    /\ goalFires' = 0
    /\ nKeep' = nKeep + 1
    /\ UNCHANGED << editor, currentDraft, emergencyModal, now,
                    pending, main, exitWarning, mainFiles, driftLog, nStarts, audit, goalBtn, web, saveError >>

\* the Keep Writing button, offered once the goal is reached
keepWriting ==
    /\ main.mainWindow
    /\ session.goalCompleted /\ exitBtn
    /\ nKeep < MaxKeep
    /\ LET ticks == Cleared(tickTimers, session.timerInterval)
           saves == Cleared(saveTimers, session.autoSaveInterval)
       IN  /\ FreeIds(ticks, 0) # {} /\ FreeIds(saves, 0) # {}
           /\ tickTimers' = ticks \cup {NewId(ticks, 0)}
           /\ saveTimers' = saves \cup {NewId(saves, 0)}
           /\ session' = [session EXCEPT
                  !.goalValue = KeepWritingGoal(session),
                  !.goalTriggered = FALSE,
                  !.goalCompleted = FALSE,
                  !.active = TRUE,
                  !.timerInterval = NewId(ticks, 0),
                  !.autoSaveInterval = NewId(saves, 0)]
    /\ screen' = "writing"
    /\ exitBtn' = FALSE
    /\ goalFires' = 0
    /\ nKeep' = nKeep + 1
    /\ UNCHANGED << editor, currentDraft, emergencyModal, now,
                    pending, main, exitWarning, mainFiles, driftLog, nStarts, audit, goalBtn, web, saveError >>

\* the stats saveAndExit sends
ExitStats(s) ==
    [ words |-> s.currentWordCount - s.startWordCount,
      duration |-> s.elapsedSeconds,
      goalType |-> s.goalType,
      goalValue |-> s.goalValue,
      completed |-> s.goalTriggered ]

\* saveAndExit() up to its await
saveAndExitCall ==
    /\ main.mainWindow
    /\ screen = "writing"
    /\ Len(pending) < MaxPending
    /\ pending' = Append(pending,
           Req("end-session", "saveAndExit", editor, FALSE,
               IF audit THEN ExitStats(session) ELSE NoStats))
    /\ UNCHANGED << exitBtn, session, editor, currentDraft, screen,
                    emergencyModal, tickTimers, saveTimers, now, main,
                    exitWarning, mainFiles, goalFires, driftLog, counters, saveError >>

\* the Save & Exit button of the goal banner, or the persistent exit button
saveAndExit ==
    /\ exitBtn
    /\ saveAndExitCall

\* the Save & Exit control of a running session while neither of them is
\* shown (saveExitBtn; the markup that places it is not in the source tree)
saveExitBtn ==
    /\ ~exitBtn
    /\ saveAndExitCall

\* the Escape key
handleGlobalKeydown ==
    /\ main.mainWindow
    /\ emergencyModal' = IF session.active THEN TRUE ELSE emergencyModal
    /\ UNCHANGED << exitBtn, session, editor, currentDraft, screen, tickTimers, saveTimers, now, pending, main, exitWarning,
                    mainFiles, goalFires, driftLog, counters, saveError >>

\* 'show-exit-warning' arrives from the main process
onShowExitWarning ==
    /\ main.mainWindow
    /\ exitWarning
    /\ exitWarning' = FALSE
    /\ emergencyModal' = TRUE
    /\ UNCHANGED << exitBtn, session, editor, currentDraft, screen, tickTimers, saveTimers, now, pending, main, mainFiles,
                    goalFires, driftLog, counters, saveError >>

\* the Cancel button of the emergency modal
hideEmergencyModal ==
    /\ main.mainWindow
    /\ emergencyModal
    /\ emergencyModal' = FALSE
    /\ UNCHANGED << exitBtn, session, editor, currentDraft, screen, tickTimers, saveTimers, now, pending, main, exitWarning,
                    mainFiles, goalFires, driftLog, counters, saveError >>

\* the field compared as typed
PhraseMatches_Exact(input) == input = GiveUpUpper

\* the phrase the emergency field is compared by
PhraseMatches(input) == Trim(toUpperCase(input)) = GiveUpUpper

\* an input event of the emergency field: checkEmergencyPhrase, and on a match
\* emergencyExit() up to its await
checkEmergencyPhrase(input) ==
    /\ main.mainWindow
    /\ emergencyModal
    /\ IF PhraseMatches(input)
       THEN /\ Len(pending) < MaxPending
            /\ tickTimers' = Cleared(tickTimers, session.timerInterval)
            /\ saveTimers' = Cleared(saveTimers, session.autoSaveInterval)
            /\ pending' = Append(pending,
                   Req("emergency-exit", "emergencyExit", editor, FALSE, NoStats))
       ELSE UNCHANGED << tickTimers, saveTimers, pending >>
    /\ UNCHANGED << exitBtn, session, editor, currentDraft, screen, emergencyModal, now,
                    main, exitWarning, mainFiles, goalFires, driftLog, counters, saveError >>

\* ------------------------------------------- renderer: after the awaits
\* the request a resumed function sends next goes behind those in flight
Continue(req) == pending' = Append(Tail(pending), req)
Finish == pending' = Tail(pending)

\* startSession after its await: the writing screen, then both intervals
afterStartSession(r) ==
    /\ FreeIds(tickTimers, 0) # {} /\ FreeIds(saveTimers, 0) # {}
    /\ screen' = "writing"
    /\ tickTimers' = tickTimers \cup {NewId(tickTimers, 0)}
    /\ saveTimers' = saveTimers \cup {NewId(saveTimers, 0)}
    /\ session' = [session EXCEPT !.timerInterval = NewId(tickTimers, 0),
                                  !.autoSaveInterval = NewId(saveTimers, 0)]
    /\ Finish
    /\ UNCHANGED << exitBtn, editor, currentDraft, emergencyModal, now, main, exitWarning,
                    mainFiles, goalFires, driftLog, counters, saveError >>

\* autoSave after its await, showing nothing of the outcome
afterAutoSave_Silent(r) ==
    /\ saveError' = saveError
    /\ Finish
    /\ UNCHANGED << exitBtn, session, editor, currentDraft, screen,
                    emergencyModal, tickTimers, saveTimers, now, main, exitWarning,
                    mainFiles, goalFires, driftLog, counters >>

\* autoSave after its await: the save indicator
afterAutoSave(r) ==
    /\ saveError' = ~r.ok
    /\ Finish
    /\ UNCHANGED << exitBtn, session, editor, currentDraft, screen,
                    emergencyModal, tickTimers, saveTimers, now, main, exitWarning,
                    mainFiles, goalFires, driftLog, counters >>

\* goalReached after the final save: autoSave's save indicator, then
\* window.focusWriter.goalReached() inside try/catch (a method the preload
\* script does not expose throws a TypeError, which is caught), then the
\* banner and the persistent exit button
afterFinalSave(r) ==
    /\ IF "goalReached" \in PreloadAPI
       THEN Continue(Req("goal-reached", "goalReached", <<>>, FALSE, NoStats))
            /\ exitBtn' = exitBtn
       ELSE Finish /\ exitBtn' = TRUE
    /\ saveError' = ~r.ok
    /\ UNCHANGED << session, editor, currentDraft, screen, emergencyModal,
                    tickTimers, saveTimers, now, main, exitWarning, mainFiles, goalFires,
                    driftLog, counters >>

\* goalReached after the release request returned
afterGoalReached(r) ==
    /\ Finish
    /\ exitBtn' = TRUE
    /\ UNCHANGED << session, editor, currentDraft, screen, emergencyModal, tickTimers, saveTimers, now, main, exitWarning,
                    mainFiles, goalFires, driftLog, counters, saveError >>

\* saveAndExit after endSession: resetSession, then loadDraft is awaited
afterEndSession(r) ==
    /\ resetSession
    /\ Continue(Req("load-draft", "saveAndExit.loadDraft", <<>>, FALSE, NoStats))
    /\ UNCHANGED << editor, currentDraft, screen, emergencyModal, now, main, exitWarning, mainFiles, driftLog, counters, saveError >>

\* saveAndExit after loadDraft: loadSessionHistory is awaited
afterExitLoadDraft(r) ==
    /\ currentDraft' = DraftShown(r.ok, r.reply)
    /\ Continue(Req("load-sessions", "saveAndExit.loadSessions", <<>>, FALSE, NoStats))
    /\ UNCHANGED << exitBtn, session, editor, screen, emergencyModal, tickTimers,
                    saveTimers, now, main, exitWarning, mainFiles, goalFires, driftLog,
                    counters, saveError >>

\* saveAndExit after loadSessionHistory: the welcome screen
afterExitLoadSessions(r) ==
    /\ screen' = "welcome"
    /\ Finish
    /\ UNCHANGED << exitBtn, session, editor, currentDraft, emergencyModal, tickTimers,
                    saveTimers, now, main, exitWarning, mainFiles, goalFires, driftLog,
                    counters, saveError >>

\* emergencyExit after its await: the modal hidden, resetSession, loadDraft awaited
afterEmergencyExit(r) ==
    /\ emergencyModal' = FALSE
    /\ resetSession
    /\ Continue(Req("load-draft", "emergencyExit.loadDraft", <<>>, FALSE, NoStats))
    /\ UNCHANGED << editor, currentDraft, screen, now, main,
                    exitWarning, mainFiles, driftLog, counters, saveError >>

\* emergencyExit after loadDraft: the welcome screen
afterEmergencyLoadDraft(r) ==
    /\ currentDraft' = DraftShown(r.ok, r.reply)
    /\ screen' = "welcome"
    /\ Finish
    /\ UNCHANGED << exitBtn, session, editor, emergencyModal, tickTimers, saveTimers, now,
                    main, exitWarning, mainFiles, goalFires, driftLog, counters, saveError >>

\* an await outside try/catch of an invoke that was rejected: the async
\* function ends there with the exception, the rest of it does not run
afterRejection(r) ==
    /\ Finish
    /\ UNCHANGED << exitBtn, session, editor, currentDraft, screen, emergencyModal,
                    tickTimers, saveTimers, now, main, exitWarning, mainFiles, goalFires,
                    driftLog, counters, saveError >>

\* the oldest invoke is answered: the function awaiting it runs to its next await
Resume ==
    /\ main.mainWindow
    /\ pending # <<>>
    /\ pending[1].handled
    /\ LET r == pending[1]
       IN  CASE r.thrown -> afterRejection(r)
             [] r.cont = "startSession" -> afterStartSession(r)
             [] r.cont = "autoSave" -> afterAutoSave(r)
             [] r.cont = "goalReached" /\ r.op = "save-content" -> afterFinalSave(r)
             [] r.cont = "goalReached" /\ r.op = "goal-reached" -> afterGoalReached(r)
             [] r.cont = "saveAndExit" -> afterEndSession(r)
             [] r.cont = "saveAndExit.loadDraft" -> afterExitLoadDraft(r)
             [] r.cont = "saveAndExit.loadSessions" -> afterExitLoadSessions(r)
             [] r.cont = "emergencyExit" -> afterEmergencyExit(r)
             [] r.cont = "emergencyExit.loadDraft" -> afterEmergencyLoadDraft(r)

\* ------------------------------------------------------------ main process
\* lockdown engaged without recording that a session is active
enterLockdown_NoFlag(m) ==
    IF ~m.mainWindow THEN m
    ELSE [m EXCEPT !.kiosk = TRUE, !.fullScreen = TRUE,
                   !.closable = FALSE, !.shortcuts = TRUE, !.lockdownInterval = TRUE,
                   !.liveIntervals = @ + 1]

enterLockdown(m) ==
    IF ~m.mainWindow THEN m
    ELSE [m EXCEPT !.isSessionActive = TRUE, !.kiosk = TRUE, !.fullScreen = TRUE,
                   !.closable = FALSE, !.shortcuts = TRUE, !.lockdownInterval = TRUE,
                   !.liveIntervals = @ + 1]

exitLockdown(m) ==
    IF ~m.mainWindow THEN m
    ELSE [m EXCEPT !.isSessionActive = FALSE, !.kiosk = FALSE, !.fullScreen = FALSE,
                   !.closable = TRUE, !.shortcuts = FALSE, !.lockdownInterval = FALSE,
                   !.liveIntervals = IF m.lockdownInterval THEN @ - 1 ELSE @]

showCompletion(m) ==
    IF ~m.mainWindow THEN m
    ELSE [m EXCEPT !.isSessionActive = FALSE, !.kiosk = FALSE, !.fullScreen = FALSE,
                   !.closable = TRUE, !.shortcuts = FALSE, !.lockdownInterval = FALSE,
                   !.liveIntervals = IF m.lockdownInterval THEN @ - 1 ELSE @]

\* every session locked down, whatever config.strictMode says
onStartSession_Always(m, strict) ==
    enterLockdown([m EXCEPT !.hasConfig = TRUE, !.configStrict = strict])

\* ipcMain.handle('start-session')
onStartSession(m, strict) ==
    LET m1 == [m EXCEPT !.hasConfig = TRUE, !.configStrict = strict]
    IN  IF strict THEN enterLockdown(m1)
        ELSE [m1 EXCEPT !.isSessionActive = TRUE, !.fullScreen = m.mainWindow \/ @]

\* ipcMain.handle('goal-reached')
onGoalReached(m) ==
    IF m.hasConfig /\ m.configStrict THEN showCompletion(m)
    ELSE [m EXCEPT !.isSessionActive = FALSE]

\* the end of 'end-session' and of 'emergency-exit'
onExit(m) ==
    LET m1 == IF m.hasConfig /\ m.configStrict THEN exitLockdown(m)
              ELSE [m EXCEPT !.isSessionActive = FALSE,
                             !.fullScreen = IF m.mainWindow THEN FALSE ELSE @]
    IN  [m1 EXCEPT !.hasConfig = FALSE, !.configStrict = FALSE]

\* archiveDraft's file name: the ISO timestamp cut after the seconds
ArchiveName(t) == t \div 1000

\* every entry logged as completed
HistoryEntry_Done(stats) ==
    [ words |-> stats.words, duration |-> stats.duration, goalType |-> stats.goalType,
      goalValue |-> stats.goalValue, completed |-> TRUE ]

\* logSession: the entry pushed onto sessions.json
HistoryEntry(stats) ==
    [ words |-> stats.words, duration |-> stats.duration, goalType |-> stats.goalType,
      goalValue |-> stats.goalValue, completed |-> stats.completed ]

\* the history written without the entries the file held
logSession_Fresh(old, stats) == << HistoryEntry(stats) >>

\* logSession: sessions.json read, the entry pushed, the file written
logSession(old, stats) == Append(old, HistoryEntry(stats))

\* 'end-session': saveContent and archiveDraft (with logSession) of a
\* content that is not empty
endSessionFiles(r, wrote, archived, logged) ==
    IF r.content # <<>>
    THEN /\ draftFile' = IF wrote THEN r.content ELSE draftFile
         /\ archives' = IF archived /\ audit
                        THEN archives \cup {ArchiveName(now)}
                        ELSE archives
         /\ archived \/ logged
         /\ sessions' = IF archived /\ logged /\ audit
                        THEN logSession(sessions, r.stats)
                        ELSE sessions
    ELSE /\ wrote /\ archived /\ logged
         /\ UNCHANGED mainFiles

\* 'emergency-exit': saveContent of a content that is not empty
emergencyExitFiles(r, wrote, archived, logged) ==
    /\ archived /\ logged
    /\ IF r.content # <<>>
       THEN draftFile' = IF wrote THEN r.content ELSE draftFile
       ELSE wrote /\ draftFile' = draftFile
    /\ UNCHANGED << archives, sessions >>

\* 'start-session' when the first window call of the lockdown throws:
\* sessionConfig and isSessionActive are set, nothing else
onStartSessionThrows(m, strict) ==
    [m EXCEPT !.hasConfig = TRUE, !.configStrict = strict, !.isSessionActive = TRUE]

\* 'end-session' and 'emergency-exit' when the first window call of the
\* release throws: exitLockdown has cleared the flag, the focus interval and
\* the shortcuts; sessionConfig is not cleared
onExitThrows(m) ==
    IF m.hasConfig /\ m.configStrict
    THEN [m EXCEPT !.isSessionActive = FALSE, !.shortcuts = FALSE,
                   !.lockdownInterval = FALSE,
                   !.liveIntervals = IF m.lockdownInterval THEN @ - 1 ELSE @]
    ELSE [m EXCEPT !.isSessionActive = FALSE]

\* the calls of the 'end-session' and the 'emergency-exit' handler, in their
\* order: the files of a content that is not empty, then the release
exitCalls(r) ==
    (IF r.content = <<>> THEN <<>>
     ELSE IF r.op = "end-session" THEN << "saveContent", "archiveDraft" >>
     ELSE << "saveContent" >>) \o << "release" >>

Answered(i, ok, reply) ==
    pending' = [pending EXCEPT ![i].handled = TRUE, ![i].ok = ok, ![i].reply = reply,
                               ![i].calls = IF pending[i].op \in {"end-session", "emergency-exit"}
                                            THEN exitCalls(pending[i]) ELSE <<>>]

\* the main process handles the oldest request not yet handled; wrote, archived
\* and logged say which of its file writes succeed
Handle(wrote, archived, logged) ==
    /\ main.mainWindow
    /\ \E i \in 1..Len(pending) :
        /\ ~pending[i].handled
        /\ \A j \in 1..(i - 1) : pending[j].handled
        /\ LET r == pending[i]
           IN  CASE r.op = "start-session" ->
                      /\ wrote /\ archived /\ logged
                      /\ main' = onStartSession(main, r.strict)
                      /\ Answered(i, TRUE, <<>>)
                      /\ UNCHANGED mainFiles
                 [] r.op = "goal-reached" ->
                      /\ wrote /\ archived /\ logged
                      /\ main' = onGoalReached(main)
                      /\ Answered(i, TRUE, <<>>)
                      /\ UNCHANGED mainFiles
                 [] r.op = "save-content" ->
                      /\ archived /\ logged
                      /\ draftFile' = IF wrote THEN r.content ELSE draftFile
                      /\ Answered(i, wrote, <<>>)
                      /\ UNCHANGED << main, archives, sessions >>
                 [] r.op = "end-session" ->
                      /\ endSessionFiles(r, wrote, archived, logged)
                      /\ main' = onExit(main)
                      /\ Answered(i, TRUE, <<>>)
                 [] r.op = "emergency-exit" ->
                      /\ emergencyExitFiles(r, wrote, archived, logged)
                      /\ main' = onExit(main)
                      /\ Answered(i, TRUE, <<>>)
                 [] r.op = "load-draft" ->
                      /\ archived /\ logged
                      /\ Answered(i, wrote, IF wrote /\ draftFile # NoFile THEN draftFile ELSE <<>>)
                      /\ UNCHANGED << main, mainFiles >>
                 [] r.op = "load-sessions" ->
                      /\ wrote /\ archived /\ logged
                      /\ Answered(i, TRUE, <<>>)
                      /\ UNCHANGED << main, mainFiles >>
        /\ UNCHANGED << exitBtn, session, editor, currentDraft, screen, emergencyModal,
                        tickTimers, saveTimers, now, exitWarning, goalFires, driftLog,
                        counters, saveError >>

\* the handler of the oldest lockdown request not yet handled throws in its
\* lockdown call (the files of an exit are written before it): the invoke is
\* rejected
HandleThrows ==
    /\ main.mainWindow
    /\ \E i \in 1..Len(pending) :
        /\ ~pending[i].handled
        /\ \A j \in 1..(i - 1) : pending[j].handled
        /\ LET r == pending[i]
           IN  CASE r.op = "start-session" ->
                      /\ main' = onStartSessionThrows(main, r.strict)
                      /\ UNCHANGED mainFiles
                 [] r.op = "end-session" ->
                      /\ endSessionFiles(r, TRUE, TRUE, TRUE)
                      /\ main' = onExitThrows(main)
                 [] r.op = "emergency-exit" ->
                      /\ emergencyExitFiles(r, TRUE, TRUE, TRUE)
                      /\ main' = onExitThrows(main)
                 [] OTHER -> FALSE
        /\ pending' = [pending EXCEPT ![i].handled = TRUE, ![i].thrown = TRUE,
                                      ![i].calls = IF pending[i].op = "start-session"
                                                   THEN <<>> ELSE exitCalls(pending[i])]
    /\ UNCHANGED << exitBtn, session, editor, currentDraft, screen, emergencyModal,
                    tickTimers, saveTimers, now, exitWarning, goalFires, driftLog,
                    counters, saveError >>

\* mainWindow.on('close'), with 'closed' when the close goes through
closeAttempt ==
    /\ main.mainWindow
    /\ IF main.isSessionActive
       THEN /\ exitWarning' = TRUE
            /\ main' = main
       ELSE /\ exitWarning' = exitWarning
            /\ main' = [main EXCEPT !.mainWindow = FALSE, !.shortcuts = FALSE,
                                    !.lockdownInterval = FALSE,
                                    !.liveIntervals = IF @ > 0 /\ main.lockdownInterval
                                                      THEN @ - 1 ELSE @]
    /\ UNCHANGED << exitBtn, session, editor, currentDraft, screen, emergencyModal,
                    tickTimers, saveTimers, now, pending, mainFiles, goalFires, driftLog,
                    counters, saveError >>

\* the CommandOrControl+Q shortcut registered by enterLockdown
quitShortcut ==
    /\ main.mainWindow
    /\ main.shortcuts
    /\ exitWarning' = TRUE
    /\ UNCHANGED << exitBtn, session, editor, currentDraft, screen, emergencyModal,
                    tickTimers, saveTimers, now, pending, main, mainFiles, goalFires,
                    driftLog, counters, saveError >>

\* time passes
clockAdvance(t) ==
    /\ main.mainWindow
    /\ t > now
    /\ now' = t
    /\ UNCHANGED << exitBtn, session, editor, currentDraft, screen, emergencyModal,
                    tickTimers, saveTimers, pending, main, exitWarning, mainFiles,
                    goalFires, driftLog, counters, saveError >>

\* ------------------------------------------------------------- the systems
\* Each specification is the whole program under the user inputs it names.

\* what the user may have typed into the goal field for the selected goal type
GoalInputs == IF session.goalType = "words" THEN WordInputs ELSE TimeInputs

\* the goal logic: both goal types, every text and every instant; sessions are
\* strict, nobody exits and the autosave interval's callbacks are not observed
Next ==
    \/ \E type \in {"words", "time"} : setGoalType(type)
    \/ nStarts < MaxStarts /\ \E raw \in GoalInputs : startSession(raw, TRUE)
    \/ \E id \in tickTimers : tick(id)
    \/ \E text \in EditorTexts : handleEditorInput(text)
    \/ keepWriting
    \/ Resume
    \/ Handle(TRUE, TRUE, TRUE)
    \/ \E t \in Instants : clockAdvance(t)

Spec == Init /\ [][Next]_vars

\* lockdown: strict and non-strict word-goal sessions of ten words, with close
\* attempts, the quit shortcut, the emergency exit and Save & Exit
NextLock ==
    \/ nStarts < MaxStarts /\ \E strict \in BOOLEAN : startSession(<<"1", "0">>, strict)
    \/ handleEditorInput(Doc(10))
    \/ keepWriting
    \/ saveAndExit
    \/ handleGlobalKeydown
    \/ onShowExitWarning
    \/ hideEmergencyModal
    \/ \E input \in PhraseInputs : checkEmergencyPhrase(input)
    \/ Resume
    \/ Handle(TRUE, TRUE, TRUE)
    \/ closeAttempt
    \/ quitShortcut

SpecLock == Init /\ [][NextLock]_vars

\* several sessions in a row, the Start button clicked again while the first
\* click still awaits its reply, the autosave interval observed
NextLeak ==
    \/ \E type \in {"words", "time"} : setGoalType(type)
    \/ nStarts < MaxSessions /\ \E raw \in {<<"1", "0">>, <<"1">>} : startSession(raw, FALSE)
    \/ \E id \in tickTimers : tick(id)
    \/ handleEditorInput(Doc(10))
    \/ \E id \in saveTimers : autoSave(id)
    \/ saveAndExit
    \/ Resume
    \/ Handle(TRUE, TRUE, TRUE)
    \/ clockAdvance(Epoch + 63000)

SpecLeak == Init /\ [][NextLeak]_vars

\* sessions ended by Save & Exit in every phase, with the archive and the
\* history file observed
AuditTexts == {<<>>, Doc(10)}

\* the word goal typed before every start
AuditGoal == <<"1", "0">>

NextAudit ==
    \/ nStarts < MaxStarts /\ startSession(AuditGoal, FALSE)
    \/ \E text \in AuditTexts : handleEditorInput(text)
    \/ keepWriting
    \/ saveAndExit
    \/ saveExitBtn
    \/ Resume
    \/ Handle(TRUE, TRUE, TRUE)
    \/ clockAdvance(Epoch + 3000)

SpecAudit == InitAudit /\ [][NextAudit]_vars

\* autosaves whose write may fail
SaveTexts == {Doc(2), Doc(9), Doc(10)}

NextSave ==
    \/ nStarts < MaxStarts /\ startSession(AuditGoal, FALSE)
    \/ \E id \in tickTimers : tick(id)
    \/ \E text \in SaveTexts : handleEditorInput(text)
    \/ \E id \in saveTimers : autoSave(id)
    \/ Resume
    \/ \E wrote \in BOOLEAN : Handle(wrote, TRUE, TRUE)
    \/ clockAdvance(Epoch + 3000)

SpecSave == Init /\ [][NextSave]_vars

\* sessions whose lockdown requests may be rejected
NextReject ==
    \/ nStarts < MaxStarts /\ \E strict \in BOOLEAN : startSession(AuditGoal, strict)
    \/ \E text \in AuditTexts : handleEditorInput(text)
    \/ saveAndExit
    \/ saveExitBtn
    \/ handleGlobalKeydown
    \/ checkEmergencyPhrase(GiveUpUpper)
    \/ Resume
    \/ Handle(TRUE, TRUE, TRUE)
    \/ HandleThrows

SpecReject == Init /\ [][NextReject]_vars

\* the tally of words written: ten-word sessions on a draft of two words, the
\* text grown past the goal and cut below the draft, ended by the exit button
\* of the reached goal, with the history file observed
TallyTexts == {Doc(1), Doc(12)}

NextTally ==
    \/ nStarts < MaxStarts /\ startSession(AuditGoal, FALSE)
    \/ \E text \in TallyTexts : handleEditorInput(text)
    \/ saveAndExit
    \/ Resume
    \/ Handle(TRUE, TRUE, TRUE)

SpecTally == InitAudit /\ [][NextTally]_vars

\* the word count of what is typed, whitespace of every kind included
NextWords ==
    \/ nStarts < MaxStarts /\ startSession(AuditGoal, FALSE)
    \/ \E text \in WordTexts : handleEditorInput(text)
    \/ \E id \in saveTimers : autoSave(id)
    \/ Resume
    \/ Handle(TRUE, TRUE, TRUE)

SpecWords == Init /\ [][NextWords]_vars

\* sessions ended by the emergency exit, strict or not, with the archive and
\* the history file observed
NextEmergency ==
    \/ nStarts < MaxStarts /\ \E strict \in BOOLEAN : startSession(<<"1", "0">>, strict)
    \/ \E text \in AuditTexts : handleEditorInput(text)
    \/ handleGlobalKeydown
    \/ hideEmergencyModal
    \/ \E input \in PhraseInputs : checkEmergencyPhrase(input)
    \/ Resume
    \/ Handle(TRUE, TRUE, TRUE)

SpecEmergency == InitAudit /\ [][NextEmergency]_vars

\* ------------------------------------------------- the web version (app.js)
\* The web version is a program of its own: one page, its timers, and the
\* item it keeps in localStorage under SESSION_KEY.  web.now is Date.now().

\* everything of the desktop application
desktop ==
    << session, editor, currentDraft, screen, emergencyModal, exitBtn, tickTimers,
       saveTimers, now, pending, main, exitWarning, draftFile, archives, sessions,
       goalFires, driftLog, nKeep, nStarts, audit, saveError, goalBtn >>

\* 24 hours, in milliseconds
Day == 24 * 60 * 60 * 1000

\* the instant the browser is at when the page is first opened, and the
\* instants at which anything happens afterwards
WebEpoch == 2 * Epoch
WebInstants == {WebEpoch + d : d \in {1000, 2500, 61000}}

\* what localStorage holds under SESSION_KEY: nothing, a record written by
\* saveSession, a text JSON.parse rejects ("garbage"), or a JSON value
\* without the record's fields ("empty")
Item(kind, duration, remaining, strict, timestamp) ==
    [ kind |-> kind, duration |-> duration, remaining |-> remaining,
      strict |-> strict, timestamp |-> timestamp ]
NoItem == Item("none", 0, 0, FALSE, 0)
Garbage == Item("garbage", 0, 0, FALSE, 0)
EmptyJson == Item("empty", 0, 0, FALSE, 0)

\* the items an earlier visit may have left behind: none, unusable ones, a
\* session of 25 hours left exactly 24 hours ago and one left a millisecond
\* earlier, a minute that ran out exactly, and two seconds left half a second
\* ago
StoredItems ==
    { NoItem, Garbage, EmptyJson,
      Item("record", 90000, 86403, TRUE, WebEpoch - Day),
      Item("record", 90000, 86403, TRUE, WebEpoch - Day - 1),
      Item("record", 60, 60, FALSE, WebEpoch - 60000),
      Item("record", 60, 2, TRUE, WebEpoch - 500) }

\* what the hours and the minutes field may hold
HoursInputs == { <<>>, <<"0">> }
MinutesInputs == { <<>>, <<"0">>, <<"1">>, <<"2">> }

\* what the emergency field of the web version may hold after a keystroke
EmergencyUpper ==
    <<"E", "M", "E", "R", "G", "E", "N", "C", "Y", " ", "E", "X", "I", "T">>
EmergencyInputs ==
    { EmergencyUpper,
      <<"e", "m", "e", "r", "g", "e", "n", "c", "y", " ", "e", "x", "i", "t">>,
      <<"E", "M", "E", "R", "G", "E", "N", "C", "Y", " ", "E", "X", "I", "T", " ">>,
      <<"E", "X", "I", "T">> }

\* the constructor's state, with the page loaded or not
Constructed(store, t, loaded) ==
    [ sessionActive |-> FALSE, sessionDuration |-> 0, timeRemaining |-> 0,
      isStrictMode |-> TRUE, timerInterval |-> 0, timers |-> {},
      store |-> store, settingsPanel |-> FALSE, emergencyExit |-> FALSE,
      now |-> t, loaded |-> loaded ]

\* parseInt(field.value) || 0
IntOrZero(raw) == IF parseInt(raw).nan THEN 0 ELSE parseInt(raw).val

saveSession(w) ==
    [w EXCEPT !.store = Item("record", w.sessionDuration, w.timeRemaining,
                             w.isStrictMode, w.now)]

\* an endSession that leaves the interval running
endSession_KeepsTimer(w) ==
    [w EXCEPT !.sessionActive = FALSE, !.store = NoItem, !.emergencyExit = FALSE]

endSession(w) ==
    [w EXCEPT !.timers = @ \ {w.timerInterval}, !.sessionActive = FALSE,
              !.store = NoItem, !.emergencyExit = FALSE]

\* a restore that resumes with the remaining time as it was saved
restoreSession_AsSaved(w) ==
    LET item == w.store
        removed == [w EXCEPT !.store = NoItem]
    IN  IF item.kind = "none" THEN w
        ELSE IF item.kind \in {"garbage", "empty"} THEN removed
        ELSE IF w.now - item.timestamp > Day THEN removed
        ELSE IF item.remaining - ((w.now - item.timestamp) \div 1000) > 0
             THEN [w EXCEPT !.sessionDuration = item.duration,
                            !.timeRemaining = item.remaining,
                            !.isStrictMode = item.strict,
                            !.sessionActive = TRUE,
                            !.timerInterval = NewId(w.timers, 0),
                            !.timers = @ \cup {NewId(w.timers, 0)}]
             ELSE removed

\* restoreSession, called by init() on a page just constructed.  JSON.parse
\* throws on garbage (the catch removes the item); a JSON value without the
\* fields makes every comparison with NaN false (the else branch removes it)
restoreSession(w) ==
    LET item == w.store
        removed == [w EXCEPT !.store = NoItem]
        secondsPassed == (w.now - item.timestamp) \div 1000
        adjustedRemaining == item.remaining - secondsPassed
    IN  IF item.kind = "none" THEN w
        ELSE IF item.kind \in {"garbage", "empty"} THEN removed
        ELSE IF w.now - item.timestamp > Day THEN removed
        ELSE IF adjustedRemaining > 0
             THEN [w EXCEPT !.sessionDuration = item.duration,
                            !.timeRemaining = adjustedRemaining,
                            !.isStrictMode = item.strict,
                            !.sessionActive = TRUE,
                            !.timerInterval = NewId(w.timers, 0),
                            !.timers = @ \cup {NewId(w.timers, 0)}]
             ELSE removed

\* the page is opened or reloaded: the old page and its timers are gone, the
\* constructor runs init(), which calls restoreSession
webLoad ==
    /\ web' = restoreSession(Constructed(web.store, web.now, TRUE))
    /\ UNCHANGED desktop

\* the timer button
openSettings ==
    /\ web.loaded
    /\ ~web.sessionActive
    /\ web' = [web EXCEPT !.settingsPanel = TRUE]
    /\ UNCHANGED desktop

closeSettingsPanel ==
    /\ web.loaded
    /\ web.settingsPanel
    /\ web' = [web EXCEPT !.settingsPanel = FALSE]
    /\ UNCHANGED desktop

\* the Start button of the settings panel
startTimedSession(hoursRaw, minutesRaw, strict) ==
    /\ web.loaded
    /\ web.settingsPanel
    /\ LET totalSeconds == (IntOrZero(hoursRaw) * 60 + IntOrZero(minutesRaw)) * 60
       IN  IF totalSeconds < 60
           THEN web' = web
           ELSE /\ FreeIds(web.timers, 0) # {}
                /\ web' = [saveSession([web EXCEPT !.sessionDuration = totalSeconds,
                                                   !.timeRemaining = totalSeconds,
                                                   !.isStrictMode = strict,
                                                   !.sessionActive = TRUE])
                              EXCEPT !.settingsPanel = FALSE,
                                     !.timerInterval = NewId(web.timers, 0),
                                     !.timers = @ \cup {NewId(web.timers, 0)}]
    /\ UNCHANGED desktop

\* tick(): one second less, the record rewritten, the session ended at zero
tickOnce(w) ==
    LET w1 == saveSession([w EXCEPT !.timeRemaining = @ - 1])
    IN  IF w1.timeRemaining <= 0 THEN endSession(w1) ELSE w1

\* a live interval of the page fires
webTick(id) ==
    /\ web.loaded
    /\ id \in web.timers
    /\ web' = tickOnce(web)
    /\ UNCHANGED desktop

\* the Escape key on the page
webGlobalKeydown ==
    /\ web.loaded
    /\ web.sessionActive /\ web.isStrictMode
    /\ web' = [web EXCEPT !.emergencyExit = TRUE]
    /\ UNCHANGED desktop

hideEmergencyExit ==
    /\ web.loaded
    /\ web.emergencyExit
    /\ web' = [web EXCEPT !.emergencyExit = FALSE]
    /\ UNCHANGED desktop

\* an input event of the emergency field
checkEmergencyExit(input) ==
    /\ web.loaded
    /\ web.emergencyExit
    /\ web' = IF toUpperCase(input) = EmergencyUpper THEN endSession(web) ELSE web
    /\ UNCHANGED desktop

\* time passes in the browser
webClock(t) ==
    /\ t > web.now
    /\ web' = [web EXCEPT !.now = t]
    /\ UNCHANGED desktop

\* the browser before the page is opened, with what an earlier visit left
InitWeb ==
    /\ InitState
    /\ audit = FALSE
    /\ \E item \in StoredItems : web = Constructed(item, WebEpoch, FALSE)

NextWeb ==
    \/ webLoad
    \/ openSettings
    \/ closeSettingsPanel
    \/ \E h \in HoursInputs, m \in MinutesInputs, strict \in BOOLEAN :
           startTimedSession(h, m, strict)
    \/ \E id \in web.timers : webTick(id)
    \/ webGlobalKeydown
    \/ hideEmergencyExit
    \/ \E input \in EmergencyInputs : checkEmergencyExit(input)
    \/ \E t \in WebInstants : webClock(t)

SpecWeb == InitWeb /\ [][NextWeb]_vars

\* ------------------------------------------------------------- the claims
\* the session is in phase Active with a goal of the given type
ActiveWith(type) == session.active /\ session.goalType = type

\* C1: in a word-goal session the goal-reached transition fires at the first
\* editor input at which currentWordCount - startWordCount >= goalValue (the
\* ghost goalFires is 0: goalReached() has not run since the session started or
\* keepWriting was last invoked)
C1_FiresAtFirstCrossing ==
    [][\A text \in EditorTexts :
          (/\ handleEditorInput(text)
           /\ ActiveWith("words")
           /\ goalFires = 0
           /\ countWords(text) - session.startWordCount >= session.goalValue)
          => goalFires' = 1]_vars

\* C2: in a time-goal session of m minutes the first tick at which
\* floor((now - startTime) / 1000) >= m * 60 fires the goal-reached transition
C2_FiresAtFirstDueTick ==
    [][\A id \in 1..MaxTimers :
          (/\ tick(id)
           /\ ActiveWith("time")
           /\ goalFires = 0
           /\ actualElapsed(session, now) >= session.goalValue * 60)
          => goalFires' = 1]_vars

\* C3: after every tick elapsedSeconds is floor((now - startTime) / 1000) for the
\* clock of that tick; a gap of more than DriftThreshold seconds is logged, and
\* unless the time goal is due the tick changes nothing but elapsedSeconds
C3_ElapsedFromClock ==
    [][\A id \in 1..MaxTimers :
          tick(id) =>
            LET elapsed == (now - ToNumber(session.startTime)) \div 1000
                due == /\ session.goalType = "time" /\ ~session.goalTriggered
                       /\ elapsed >= session.goalValue * 60
            IN  /\ session'.elapsedSeconds = elapsed
                /\ driftLog' = (elapsed - session.elapsedSeconds > DriftThreshold)
                /\ ~due =>
                     /\ session' = [session EXCEPT !.elapsedSeconds = elapsed]
                     /\ UNCHANGED << editor, currentDraft, screen, emergencyModal, exitBtn,
                                     tickTimers, saveTimers, now, pending, main,
                                     exitWarning, mainFiles, goalFires, counters >>]_vars

\* a tick of an Active time session found the clock 59 seconds on and logged it
C3_Witness ==
    /\ ActiveWith("time") /\ driftLog
    /\ session.elapsedSeconds = 59
    /\ now = session.startTime + 59999

\* the input is an integer inside the range of the goal type
GoalInRange(type, raw) ==
    /\ IsIntegerText(raw)
    /\ IF type = "words"
       THEN parseInt(raw).val >= MIN_WORDS /\ parseInt(raw).val <= MAX_WORDS
       ELSE parseInt(raw).val >= MIN_MINUTES /\ parseInt(raw).val <= MAX_MINUTES

\* C4: startSession with a goal that is not an integer inside the range starts
\* nothing: the session, the timers and the requests in flight stay as they are
C4_InvalidStartsNothing ==
    [][\A raw \in WordInputs \cup TimeInputs : \A strict \in BOOLEAN :
          (startSession(raw, strict) /\ ~GoalInRange(session.goalType, raw))
          => UNCHANGED << session, tickTimers, saveTimers, pending >>]_vars

\* the main process handles a start-session request of the given strictMode
StartHandled(strict) ==
    /\ Handle(TRUE, TRUE, TRUE)
    /\ \E i \in 1..Len(pending) :
          /\ pending[i].op = "start-session" /\ pending[i].strict = strict
          /\ ~pending[i].handled /\ pending'[i].handled

\* C5: handling a session start engages lockdown (kiosk, window not closable,
\* shortcuts registered, focus interval) when strictMode is true, and changes
\* none of them when it is false
C5_LockdownIffStrict ==
    [][/\ StartHandled(TRUE) =>
            /\ main'.kiosk /\ ~main'.closable
            /\ main'.shortcuts /\ main'.lockdownInterval
       /\ StartHandled(FALSE) =>
            /\ main'.kiosk = main.kiosk /\ main'.closable = main.closable
            /\ main'.shortcuts = main.shortcuts
            /\ main'.lockdownInterval = main.lockdownInterval
            /\ main'.liveIntervals = main.liveIntervals]_vars

\* a non-strict session is shown its writing screen with no lockdown engaged
C5_Witness ==
    /\ session.active /\ ~session.strictMode /\ screen = "writing"
    /\ main.hasConfig /\ ~main.configStrict
    /\ ~main.kiosk /\ main.closable /\ ~main.shortcuts /\ ~main.lockdownInterval

\* the smallest integer not below 1.2 times g
CeilSixFifths(g) == CHOOSE n \in g..(2 * g) : 5 * n >= 6 * g /\ 5 * (n - 1) < 6 * g

\* C10: keepWriting adds KeepWritingMinutes to a time goal and raises a word goal
\* to ceil(1.2 * goal), clears goalTriggered and makes the session Active; with
\* goalTriggered clear the next tick or input at which the goal is met fires
\* goal-reached, and with goalTriggered set none does
C10_KeepWriting ==
    [][/\ keepWriting =>
            /\ session'.goalValue =
                 IF session.goalType = "time" THEN session.goalValue + 10
                 ELSE CeilSixFifths(session.goalValue)
            /\ ~session'.goalTriggered /\ ~session'.goalCompleted /\ session'.active
            /\ KeepWritingGoal([session EXCEPT !.goalType = "words", !.goalValue = 100]) = 120
            /\ KeepWritingGoal([session EXCEPT !.goalType = "time", !.goalValue = 25]) = 35
       /\ \A id \in 1..MaxTimers :
            (tick(id) /\ session.goalType = "time") =>
              IF ~session.goalTriggered
                 /\ (now - ToNumber(session.startTime)) \div 1000 >= session.goalValue * 60
              THEN goalFires' = goalFires + 1 /\ session'.goalTriggered
              ELSE goalFires' = goalFires
       /\ \A text \in EditorTexts :
            (handleEditorInput(text) /\ session.goalType = "words") =>
              IF ~session.goalTriggered
                 /\ countWords(text) - session.startWordCount >= session.goalValue
              THEN goalFires' = goalFires + 1 /\ session'.goalTriggered
              ELSE goalFires' = goalFires]_vars

\* a word goal of 11 was raised to 14 by keepWriting and reached again
C10_Witness ==
    /\ nKeep = 1 /\ goalFires = 1
    /\ session.goalType = "words" /\ session.goalValue = 14
    /\ session.goalCompleted /\ session.goalTriggered

\* a request of the given channel is in flight and the main process has not handled it
Unhandled(op) == \E i \in 1..Len(pending) : pending[i].op = op /\ ~pending[i].handled

\* a request of the given channel is in flight
InFlight(op) == \E i \in 1..Len(pending) : pending[i].op = op

\* C6, as stated: while a strict-mode session is Active every window close
\* attempt is suppressed and show-exit-warning is sent to the renderer
C6_CloseSuppressed ==
    [][(closeAttempt /\ session.active /\ session.strictMode)
       => (main'.mainWindow /\ exitWarning')]_vars

\* C6, amended: while a strict-mode session is Active, the main process has
\* handled its start-session request and no exit (Save & Exit, emergency exit)
\* is under way, every window close attempt is suppressed and show-exit-warning
\* is sent
C6_CloseSuppressedOnceStarted ==
    [][(/\ closeAttempt
        /\ session.active /\ session.strictMode
        /\ ~Unhandled("start-session")
        /\ ~InFlight("end-session") /\ ~InFlight("emergency-exit"))
       => (main'.mainWindow /\ exitWarning')]_vars

\* a strict Active session whose window is still open after a close attempt,
\* show-exit-warning on its way to the renderer
C6_Witness ==
    /\ session.active /\ session.strictMode /\ screen = "writing"
    /\ main.mainWindow /\ main.isSessionActive /\ exitWarning
    /\ pending = <<>>

\* C7: a window close attempt is suppressed only while a strict-mode session is
\* Active: in a non-strict session, after the goal was reached and with no
\* session running the window closes
C7_CloseSuppressedOnlyIfStrictActive ==
    [][(closeAttempt /\ ~(session.active /\ session.strictMode))
       => ~main'.mainWindow]_vars

\* C8: once goalReached() of a strict-mode session has run to its end (the
\* release request was awaited, the banner and the exit button are shown)
\* lockdown is released
C8_ReleasedAtGoal ==
    (session.goalCompleted /\ session.strictMode /\ exitBtn)
    => (~main.isSessionActive /\ main.closable /\ ~main.shortcuts)

\* C9: while the session is in GoalReached no callback of an autosave interval
\* sends a write
C9_NoAutosaveInGoalReached ==
    [][\A id \in 1..MaxTimers :
          (autoSave(id) /\ session.goalCompleted /\ ~session.active)
          => UNCHANGED pending]_vars

\* C11: keepWriting in a strict-mode session sends a lockdown engage request
\* (start-session) to the main process, and in a non-strict session sends
\* no request; once the main process has answered everything, lockdown is
\* engaged exactly when the session is strict.
EngageRequested ==
    /\ Len(pending') = Len(pending) + 1
    /\ pending'[Len(pending')].op = "start-session"
    /\ pending'[Len(pending')].strict

C11_KeepWritingReengages ==
    [][keepWriting =>
         /\ (session.strictMode => EngageRequested)
         /\ (~session.strictMode => pending' = pending)]_vars

\* C12: in every reachable state, whatever the interleaving of startSession
\* (also a second one while the first awaits the main process), keepWriting,
\* goal-reached, saveAndExit and emergencyExit, at most one tick timer and
\* at most one autosave timer are live.
C12_AtMostOneTimerEach ==
    /\ Cardinality(tickTimers) <= 1
    /\ Cardinality(saveTimers) <= 1

\* the end-session request the main process handles in this step
EndSessionHandled(i) ==
    /\ i \in 1..Len(pending)
    /\ pending[i].op = "end-session"
    /\ ~pending[i].handled
    /\ Len(pending') = Len(pending)
    /\ pending'[i].handled

EverReached ==
    \/ session.goalTriggered
    \/ session.goalValue > parseInt(AuditGoal).val

\* C14: the history entry of a session ended by saveAndExit has completed =
\* TRUE exactly when the goal was reached at some point during the session,
\* also when keepWriting was chosen and the user exits before the raised goal.
C14_CompletedIffEverReached ==
    [][saveAndExitCall /\ session.startTime # Null =>
           (pending'[Len(pending')].stats.completed <=> EverReached)]_vars

\* C15: each session ended by saveAndExit yields exactly one archive copy and
\* exactly one appended history entry. Not zero: the main process, handling
\* an end-session request, writes one new archive file and appends one entry,
\* whatever the content and whether or not the goal was reached. Not two:
\* saveAndExit sends a request only for a running session for which no
\* end-session request is in flight already.
C15_OneArchiveOneEntry ==
    [][/\ \A i \in 1..Len(pending) :
              EndSessionHandled(i) =>
                  /\ Len(sessions') = Len(sessions) + 1
                  /\ Cardinality(archives') = Cardinality(archives) + 1
       /\ saveAndExitCall =>
              /\ session.startTime # Null
              /\ ~InFlight("end-session")]_vars

\* the emergency-exit request the main process handles in this step
EmergencyHandled(i) ==
    /\ i \in 1..Len(pending)
    /\ pending[i].op = "emergency-exit"
    /\ ~pending[i].handled
    /\ Len(pending') = Len(pending)
    /\ pending'[i].handled

\* nothing of the lockdown is left in the main process
Released(m) ==
    /\ ~m.isSessionActive
    /\ ~m.kiosk
    /\ ~m.fullScreen
    /\ m.closable
    /\ ~m.shortcuts
    /\ ~m.lockdownInterval

\* emergencyExit() resumes after its await of the main process
EmergencyExitResumes ==
    /\ pending # <<>>
    /\ pending[1].cont = "emergencyExit"
    /\ pending[1].handled
    /\ Resume

\* C16: an emergency exit creates no archive copy and appends no history
\* entry, the main process handling it releases the lockdown whether the
\* session was strict or not, and emergencyExit, resumed, leaves the
\* controller in phase Idle (no session active or at its goal).
C16_EmergencyExit ==
    [][/\ \A i \in 1..Len(pending) :
              EmergencyHandled(i) =>
                  /\ archives' = archives
                  /\ sessions' = sessions
                  /\ Released(main')
       /\ EmergencyExitResumes =>
              /\ ~session'.active
              /\ ~session'.goalCompleted
              /\ ~session'.goalTriggered]_vars

\* two texts equal up to the case of their letters
SameIgnoringCase(a, b) ==
    /\ Len(a) = Len(b)
    /\ \A i \in 1..Len(a) : UpperChar(a[i]) = UpperChar(b[i])

\* this step sends an emergency-exit request
ExitTriggered ==
    /\ Len(pending') = Len(pending) + 1
    /\ pending'[Len(pending')].op = "emergency-exit"

\* C17: an input event of the emergency field triggers the emergency exit
\* exactly when the input, trimmed and compared without regard to case,
\* equals "I GIVE UP"; "I give" triggers nothing. (An input that triggers
\* nothing leaves the state as it is, so the comparison checkEmergencyPhrase
\* makes is stated for every input as well as the request it sends.)
C17_PhraseTriggersExit ==
    [][\A input \in PhraseInputs :
           /\ PhraseMatches(input) <=> SameIgnoringCase(Trim(input), GiveUpUpper)
           /\ checkEmergencyPhrase(input) =>
                  (ExitTriggered <=> SameIgnoringCase(Trim(input), GiveUpUpper))]_vars

\* the phrase was typed with the modal open and the exit request is on its way
C17_Witness ==
    /\ emergencyModal
    /\ pending # <<>>
    /\ pending[Len(pending)].op = "emergency-exit"
    /\ ~pending[Len(pending)].handled

\* what load-draft answers for a draft file
Loaded(file) == IF file = NoFile THEN <<>> ELSE file

\* emergencyExit()'s loadDraft is answered and shown
EmergencyDraftShown ==
    /\ pending # <<>>
    /\ pending[1].cont = "emergencyExit.loadDraft"
    /\ pending[1].handled
    /\ Resume

\* C18: after an emergency exit the persisted draft equals the editor content
\* of the moment of the exit (the content the request carries), for every
\* content, the empty text too, and the draft offered to the next session is
\* that persisted content.
C18_DraftIsContentAtExit ==
    [][/\ \A i \in 1..Len(pending) :
              EmergencyHandled(i) => Loaded(draftFile') = pending[i].content
       /\ EmergencyDraftShown => currentDraft' = Loaded(draftFile)]_vars

\* the maximal runs of non-whitespace characters of a text, by where they start
RunStarts(text) ==
    {i \in 1..Len(text) : text[i] \notin WS /\ (i = 1 \/ text[i - 1] \in WS)}

\* C19: countWords(text) is the number of maximal runs of non-whitespace
\* characters of text: 0 for the empty and for a whitespace-only text, and
\* whitespace at the ends or repeated between words adds no word. Stated of
\* the count every input event of the editor stores.
C19_CountsRuns ==
    [][\A text \in WordTexts :
           handleEditorInput(text) =>
               session'.currentWordCount = Cardinality(RunStarts(text))]_vars

\* a text with whitespace at both ends was typed and counted as its two words
C19_Witness ==
    /\ editor = Padded(2)
    /\ session.currentWordCount = 2

\* autoSave() resumes with the answer that the write failed
FailedSaveResumes ==
    /\ pending # <<>>
    /\ pending[1].op = "save-content"
    /\ pending[1].handled
    /\ ~pending[1].ok
    /\ Resume

\* C20: an autosave whose write fails changes nothing of the session (phase,
\* goalValue, goalTriggered, elapsedSeconds, timer handles) nor the live
\* timers, shows the failure indicator, and queues no retry: the answered
\* request leaves and none is sent in its place; every later autosave sends
\* the content the editor has then.
C20_FailedAutosave ==
    [][/\ FailedSaveResumes =>
              /\ session' = session
              /\ tickTimers' = tickTimers
              /\ saveTimers' = saveTimers
              /\ saveError'
              /\ pending' = Tail(pending)
       /\ \A id \in saveTimers :
              autoSave(id) /\ pending' # pending =>
                  /\ pending' = Append(pending, pending'[Len(pending')])
                  /\ pending'[Len(pending')].op = "save-content"
                  /\ pending'[Len(pending')].content = editor]_vars

\* after a failed write the indicator shows the failure, the session goes on,
\* and the next autosave is on its way with the text typed since
C20_Witness ==
    /\ saveError
    /\ session.active
    /\ pending # <<>>
    /\ pending[Len(pending)].cont = "autoSave"
    /\ ~pending[Len(pending)].handled
    /\ pending[Len(pending)].content = editor
    /\ Loaded(draftFile) # editor

\* the function awaiting the oldest invoke resumes on its rejection
RejectedResumes(cont) ==
    /\ pending # <<>>
    /\ pending[1].thrown
    /\ pending[1].cont = cont
    /\ Resume

\* goalReached() resumes after its final save and attempts the release
ReleaseAttempted ==
    /\ pending # <<>>
    /\ pending[1].cont = "goalReached"
    /\ pending[1].op = "save-content"
    /\ Resume

\* C21: a lockdown request that fails never blocks the transition it
\* accompanies: startSession, its request rejected, still shows the writing
\* screen with the session active and both timers running; goalReached, its
\* release failing, still shows the banner and the exit button; saveAndExit
\* and emergencyExit, their requests rejected, still reset the session.
C21_FailureBlocksNothing ==
    [][/\ RejectedResumes("startSession") =>
              /\ screen' = "writing"
              /\ session'.active
              /\ session'.timerInterval \in tickTimers'
              /\ session'.autoSaveInterval \in saveTimers'
       /\ ReleaseAttempted => exitBtn'
       /\ RejectedResumes("saveAndExit") => session' = DefaultSession
       /\ RejectedResumes("emergencyExit") => session' = DefaultSession]_vars

\* something of the lockdown is in force in the main process
LockdownEngaged(m) == m.mainWindow /\ (m.kiosk \/ ~m.closable)

\* one of the three ways to the emergency prompt works: Escape (a session is
\* active), a close attempt (suppressed, with the warning sent) or the quit
\* shortcut (registered)
PromptCanOpen == session.active \/ main.isSessionActive \/ main.shortcuts

\* C22: in every reachable state in which lockdown is engaged the emergency
\* exit is available: the emergency prompt can be opened, and an emergency
\* exit handled by the main process as it is now releases the lockdown, so no
\* reachable state leaves the user locked in with no exit.
C22_ExitAlwaysAvailable ==
    LockdownEngaged(main) =>
        /\ PromptCanOpen
        /\ Released(onExit(main))

\* the controller is in phase Idle
Idle == ~session.active /\ ~session.goalCompleted

\* C23: whenever the controller is Idle and no exit request (end-session,
\* emergency-exit) is in flight, the lockdown is released: isSessionActive is
\* FALSE in the main process and the window is closable, after saveAndExit
\* and after emergencyExit, for strict and for non-strict sessions.
C23_IdleMeansReleased ==
    (Idle /\ ~InFlight("end-session") /\ ~InFlight("emergency-exit")) =>
        (~main.isSessionActive /\ (main.mainWindow => main.closable))

\* an exit request whose handler has run
ExitHandled(i) ==
    /\ pending[i].op \in {"end-session", "emergency-exit"}
    /\ pending[i].handled

\* the handler called saveContent before it released the lockdown
SavedBeforeRelease(calls) ==
    \E k \in 1..Len(calls) :
        /\ calls[k] = "release"
        /\ \E j \in 1..(k - 1) : calls[j] = "saveContent"

\* C24: on saveAndExit and on emergencyExit the write of the content is issued
\* before the lockdown is released: in no execution is the lockdown released
\* for a session exit before the save of that exit's content was attempted.
C24_SaveBeforeRelease ==
    \A i \in 1..Len(pending) :
        ExitHandled(i) => SavedBeforeRelease(pending[i].calls)

\* an interval of the session's timer fires
Ticks == \E id \in tickTimers : tick(id)

\* C25: within one session, under a clock that never goes backwards,
\* elapsedSeconds is a non-negative integer that no tick decreases, also
\* across goal-reached and keepWriting, which leave startTime alone.
C25_ElapsedNeverDecreases ==
    [][Ticks =>
           /\ session'.elapsedSeconds \in Nat
           /\ session'.elapsedSeconds >= session.elapsedSeconds]_vars

\* a tick after keepWriting has counted on from the session's start and
\* reached the extended time goal
C25_Witness ==
    /\ session.goalType = "time" /\ nKeep = 1
    /\ session.goalTriggered
    /\ session.elapsedSeconds >= (1 + KeepWritingMinutes) * 60

\* an input event of the editor
Types == \E text \in EditorTexts : handleEditorInput(text)

\* the step neither sets goalTriggered nor runs goalReached (which counts in
\* goalFires and issues the final save)
NoGoalFired ==
    /\ session'.goalTriggered = session.goalTriggered
    /\ session'.goalCompleted = session.goalCompleted
    /\ goalFires' = goalFires
    /\ pending' = pending

\* C26: in a word-goal session no tick fires goal-reached or sets
\* goalTriggered; in a time-goal session no editor-input event does.
C26_GoalFiresByItsTypeOnly ==
    [][/\ (Ticks /\ session.goalType = "words") => NoGoalFired
       /\ (Types /\ session.goalType = "time") => NoGoalFired]_vars

\* a word-goal session that has run past goalValue minutes without its goal
C26_Witness ==
    /\ session.goalType = "words" /\ session.active /\ ~session.goalTriggered
    /\ tickTimers # {}
    /\ session.elapsedSeconds >= session.goalValue * 60

\* C27: the wordsWritten recorded in the history entry (and in the archive
\* header, which takes the same stats.words) at saveAndExit equals
\* max(0, currentWordCount - startWordCount): it is never negative.
C27_WordsWrittenNotNegative ==
    \A i \in 1..Len(sessions) : sessions[i].words >= 0

\* saveAndExit or emergencyExit goes on after its exit request was answered
TerminalResumes ==
    /\ pending # <<>>
    /\ pending[1].op \in {"end-session", "emergency-exit"}
    /\ pending[1].handled /\ ~pending[1].thrown
    /\ Resume

\* C28: after every terminal transition (saveAndExit, emergencyExit) the
\* session state equals its defaults: active, goalCompleted and goalTriggered
\* false, elapsedSeconds, startWordCount and currentWordCount 0, startTime
\* null, both timer handles null.
C28_TerminalResetsSession ==
    [][TerminalResumes =>
           /\ ~session'.active /\ ~session'.goalCompleted /\ ~session'.goalTriggered
           /\ session'.elapsedSeconds = 0
           /\ session'.startWordCount = 0 /\ session'.currentWordCount = 0
           /\ session'.startTime = Null
           /\ session'.timerInterval = 0 /\ session'.autoSaveInterval = 0]_vars

\* saveAndExit has saved the ten words of the editor, reset the session that
\* counted them and awaits the draft
C28_Witness ==
    /\ pending # <<>> /\ pending[1].cont = "saveAndExit.loadDraft"
    /\ editor = Doc(10) /\ draftFile = Doc(10)
    /\ session.currentWordCount = 0 /\ ~session.active /\ session.startTime = Null

\* C29: in phase Idle no tick timer and no autosave timer is live: every
\* transition into Idle cancels all the timers the session ever started.
C29_NoTimerInIdle ==
    Idle => (tickTimers = {} /\ saveTimers = {})

\* C30: calling enterLockdown twice leaves the same enforcer state as calling
\* it once: exactly one focus-enforcement interval, which a single
\* exitLockdown cancels; calling exitLockdown twice is the same as once.
C30_LockdownIdempotent ==
    /\ main.liveIntervals <= 1
    /\ exitLockdown(main).liveIntervals = 0
    /\ enterLockdown(enterLockdown(main)) = enterLockdown(main)
    /\ exitLockdown(exitLockdown(main)) = exitLockdown(main)

\* C31: the emergency exit is taken only while a strict-mode session is
\* Active or GoalReached: entering the phrase in a non-strict session or with
\* no session running changes nothing (no draft write is requested, no timer
\* is cleared, no lockdown call is requested).
C31_EmergencyOnlyInStrictSession ==
    [][ExitTriggered =>
           /\ session.strictMode
           /\ session.active \/ session.goalCompleted]_vars

\* C32: the session history is append-only: logSession leaves every existing
\* entry unchanged and in its original order and adds exactly one new entry at
\* the end; no operation removes or rewrites an earlier entry.
C32_HistoryAppendOnly ==
    [][sessions' # sessions =>
           /\ Len(sessions') = Len(sessions) + 1
           /\ SubSeq(sessions', 1, Len(sessions)) = sessions]_vars

\* logSession has added to a history that held an entry
C32_Witness ==
    /\ Len(sessions) >= 2
    /\ sessions[1] # sessions[2]

\* the amount done and the amount aimed at
Done(s) ==
    IF s.goalType = "words"
    THEN (IF s.currentWordCount >= s.startWordCount
          THEN s.currentWordCount - s.startWordCount ELSE 0)
    ELSE s.elapsedSeconds
Aim(s) == IF s.goalType = "words" THEN s.goalValue ELSE s.goalValue * 60

\* C33: the progress shown by updateProgress is always within [0, 100] percent
\* and equals min(1, max(0, currentWordCount - startWordCount) / goalValue)
\* for a word goal and min(1, elapsedSeconds / (goalValue * 60)) for a time
\* goal, also when words were deleted below the starting count or the elapsed
\* time overshoots the goal.  (Fractions are compared by cross-multiplying.)
C33_ProgressWithinBounds ==
    LET p == updateProgress(session)
    IN  /\ p.den > 0
        /\ 0 <= p.num /\ p.num <= 100 * p.den
        /\ IF Done(session) >= Aim(session)
           THEN p.num = 100 * p.den
           ELSE p.num * Aim(session) = 100 * Done(session) * p.den

\* a running word-goal session whose text was cut below the starting count
C33_Witness ==
    /\ session.active /\ session.goalType = "words" /\ screen = "writing"
    /\ session.currentWordCount < session.startWordCount

\* this step is a startSession that passed validation: it rewrites startTime,
\* startWordCount and elapsedSeconds and sends the request whose continuation
\* creates the two timers
StartTakesEffect == nStarts' = nStarts + 1

\* C34: startSession takes effect only from phase Idle: invoked while a
\* session is Active or GoalReached, or while an earlier startSession is still
\* awaiting the lockdown request, it does not restart the session and creates
\* no additional timers.
C34_StartOnlyFromIdle ==
    [][StartTakesEffect => (Idle /\ ~InFlight("start-session"))]_vars

\* C35: the goal type that startSession validates and runs is the goal type
\* the user selected last with setGoalType, also for a session started after
\* a previous session ended: ending a session does not change the selected
\* goal type.
C35_RunsSelectedGoalType ==
    [][StartTakesEffect => session'.goalType = goalBtn]_vars

\* a session was started and has not been reset since
SessionRunning == session.startTime # Null

\* this step is an autoSave that sends the editor's content to be written
AutoSaveWrites ==
    /\ Len(pending') = Len(pending) + 1
    /\ pending'[Len(pending')].cont = "autoSave"

\* C36: autoSave writes the draft only while a session is Active or
\* GoalReached: an autosave callback that runs in phase Idle (from a timer
\* that outlived its session) writes nothing, so the persisted draft is never
\* overwritten by the editor content of an ended session.
C36_NoAutosaveInIdle ==
    [][AutoSaveWrites => (~Idle /\ SessionRunning)]_vars

\* this step runs goalReached or sets one of the goal flags
GoalFiring ==
    \/ goalFires' > goalFires
    \/ session'.goalTriggered /\ ~session.goalTriggered
    \/ session'.goalCompleted /\ ~session.goalCompleted

\* C37: the goal-reached transition fires only from phase Active: no
\* editor-input event and no tick delivered in phase Idle (before any session,
\* or after a reset) or in phase GoalReached invokes goalReached or sets
\* goalTriggered or goalCompleted.
C37_GoalFiresOnlyFromActive ==
    [][((Ticks \/ handleEditorInput(Doc(10))) /\ GoalFiring) =>
           (session.active /\ SessionRunning)]_vars


\* a step in which an interval of the web page fires
WebTicks == \E id \in web.timers : webTick(id)

\* C38: in the web version every tick takes exactly one second off
\* timeRemaining; the tick that brings it to 0 ends the session (interval
\* cleared, sessionActive false, stored record removed) and no other tick
\* does; timeRemaining is never negative; and once the session has ended, by
\* its last tick or by the emergency exit, no interval is left to tick.
C38_TickCountsDownToTheEnd ==
    /\ [](/\ web.timeRemaining >= 0
          /\ ~web.sessionActive => web.timers = {}
          /\ web.sessionActive => web.timers = {web.timerInterval})
    /\ [][WebTicks =>
            /\ web.sessionActive
            /\ web'.timeRemaining = web.timeRemaining - 1
            /\ IF web'.timeRemaining = 0
               THEN /\ ~web'.sessionActive
                    /\ web'.timers = {}
                    /\ web'.store = NoItem
               ELSE /\ web'.sessionActive
                    /\ web'.timers = web.timers
                    /\ web'.store.kind = "record"
                    /\ web'.store.remaining = web'.timeRemaining]_vars

\* a session of the web version that its last tick has ended
C38_Witness ==
    /\ web.loaded
    /\ web.sessionDuration > 0
    /\ web.timeRemaining = 0
    /\ ~web.sessionActive
    /\ web.timers = {}
    /\ web.store = NoItem

\* C39: loading the page of the web version resumes the stored session, with
\* timeRemaining = the stored remaining time minus the whole seconds since
\* the record was written, exactly when the record is at most 24 hours old
\* and that difference is above 0; in every other case (run out, too old,
\* unusable) the stored item is gone afterwards, no session is active and no
\* interval runs.  Stated of what init() makes of the stored item at every
\* instant the page can be loaded.
C39_RestoreResumesOrRemoves ==
    LET item == web.store
        w == restoreSession(Constructed(item, web.now, TRUE))
        age == web.now - item.timestamp
        left == item.remaining - (age \div 1000)
    IN  IF item.kind = "record" /\ age <= Day /\ left > 0
        THEN /\ w.sessionActive
             /\ w.timeRemaining = left
             /\ w.sessionDuration = item.duration
             /\ w.isStrictMode = item.strict
             /\ w.store = item
             /\ w.timerInterval # 0
             /\ w.timers = {w.timerInterval}
        ELSE /\ ~w.sessionActive
             /\ w.timers = {}
             /\ w.store = NoItem

\* a page that has resumed a stored session with seconds taken off
C39_Witness ==
    /\ web.loaded
    /\ web.sessionActive
    /\ web.store.kind = "record"
    /\ web.timers = {web.timerInterval}
    /\ web.timeRemaining < web.store.remaining

====
